---- MODULE Spec2Model ----
(***************************************************************************)
(* Model of MaaFramework's TaskBase (source/MaaFramework/Task/TaskBase.cpp) *)
(* the task executor: run_recognition over a candidate list, run_action on *)
(* a matched result, node/task bookkeeping in the Runtime Cache and the    *)
(* notifications sent to the Tasker.                                       *)
(*                                                                         *)
(* Every TaskBase instance ("executor") is driven by one control thread;   *)
(* several executors run concurrently and share the debug-mode flag, the   *)
(* node-id counter and the Runtime Cache.  A call is modelled as the       *)
(* sequence of its steps.  A step holds one access to shared state (a read *)
(* of the debug option, the counter, one cache operation) together with    *)
(* the executor-local work around it, so that the steps of different       *)
(* executors interleave as the threads can.                                *)
(***************************************************************************)
EXTENDS Integers, Sequences, FiniteSets, TLC

\* ---------------------------------------------------------------- bounds
NumExecutors == 2      \* executors (tasks) running concurrently
MaxListLen == 3        \* longest candidate list handed to run_recognition
MaxNodeId == 2         \* run_action calls that may allocate a node id

\* ---------------------------------------------------------------- values
Names == {"A", "B", "C"}          \* pipeline node names
EntryNames == {"A"}               \* entry nodes of the executors
FocusNames == {"A", "B"}          \* nodes whose focus flag may be set
HitNames == {"B", "C"}            \* nodes whose condition a frame may meet
Executors == 1..NumExecutors
\* the executor whose run_recognition is followed
RecoExecutor == CHOOSE e \in Executors : \A x \in Executors : e <= x
\* the executor that may be left without a Context
UnboundExecutor == RecoExecutor

NoBox == <<>>                     \* std::optional<cv::Rect>: std::nullopt
Rect(name) == CASE name = "A" -> <<1, 1, 5, 5>>
                [] name = "B" -> <<5, 5, 5, 5>>
                [] OTHER      -> <<10, 10, 5, 5>>

\* RecoResult {} and NodeDetail {}: the value-initialised ("empty") results
EmptyReco == [name |-> "", reco_id |-> 0, box |-> NoBox]
EmptyNode == [node_id |-> 0, name |-> "", reco_id |-> 0, completed |-> FALSE]

\* cv::Mat: an empty image, or a frame on which the nodes in hits match
EmptyImage == [empty |-> TRUE, hits |-> {}]
Images == {EmptyImage} \cup {[empty |-> FALSE, hits |-> h] : h \in SUBSET HitNames}

RECURSIVE SeqsUpTo(_, _)
SeqsUpTo(S, n) ==
    IF n = 0 THEN {<<>>}
    ELSE LET shorter == SeqsUpTo(S, n - 1)
         IN  shorter \cup {Append(s, x) : s \in {t \in shorter : Len(t) = n - 1}, x \in S}
NextLists == SeqsUpTo(Names, MaxListLen)      \* PipelineData::NextList

VARIABLES
    debug,             \* GlobalOptionMgr::debug_mode(), process-wide
    pipeline,          \* Context: node name -> [enabled, focus]
    ctx,               \* context_ of each executor is bound (non-null)
    entry_,            \* entry_ (= cur_task_) of each executor
    s_global_node_id,  \* TaskBase::s_global_node_id
    node_details,      \* RuntimeCache: node id -> NodeDetail
    latest_node,       \* RuntimeCache: node name -> node id
    task_details,      \* RuntimeCache: task id -> TaskDetail
    pc,                \* position of each executor's control thread
    image, list,       \* the frame and the next list each executor's caller holds
    idx,               \* position of the for loop in list
    current_focus,     \* local of run_recognition
    result,            \* local of run_recognition / run_action
    reco,              \* argument of the running run_action
    ret,               \* local of run_action: what the Actuator returned
    task_detail,       \* local of set_node_detail
    returned,          \* what the last call of each executor returned
    events,            \* what the running (last) call passed to Tasker::notify
    reco_calls,        \* the Recognizer invocations of the running (last) call
    act_calls,         \* the Actuator invocations of the running (last) call
    dbg_on,            \* every debug_mode() read of the running call gave true
    pre_node_ids,      \* task history when the running run_action was called
    detail,            \* local of run_action: the NodeDetail it builds
    allocated,         \* node ids in the order generate_node_id handed them out
    returns            \* node id -> how many returned records carried it

cache == <<node_details, latest_node, task_details>>
rr_locals == <<image, list, idx, current_focus, reco_calls>>
ra_locals == <<reco, ret, detail, task_detail, act_calls, pre_node_ids>>
history == <<allocated, returns>>
vars == <<debug, pipeline, ctx, entry_, s_global_node_id, node_details, latest_node,
          task_details, pc, image, list, idx, current_focus, result, reco, ret,
          task_detail, returned, events, reco_calls, act_calls, dbg_on,
          pre_node_ids, detail, allocated, returns>>

\* ------------------------------------------------------- the collaborators
\* Tasker* tasker_: every executor is constructed by its Tasker, which passes itself
tasker_ == TRUE

\* TaskBase::task_id_, drawn from the process-wide task-id counter: one per executor
task_id_(e) == e

\* Context::get_pipeline_data(name): total, an unknown name gives a disabled node
get_pipeline_data(name) ==
    IF name \in DOMAIN pipeline THEN pipeline[name] ELSE [enabled |-> FALSE, focus |-> FALSE]

\* Recognizer::recognize on frame img: a result carrying the node's name, a fresh
\* identity and a box exactly when the node's condition holds on the frame
recognize(img, name, rid) ==
    [name |-> name, reco_id |-> rid, box |-> IF name \in img.hits THEN Rect(name) ELSE NoBox]

\* the identity of the next result: the Recognizer numbers its results as it goes
next_reco_id(e) == Len(reco_calls[e]) + 1

\* RuntimeCache: three keyed stores, each operation atomic
cache_set_node_detail(store, node_id, nd) ==
    [n \in DOMAIN store \cup {node_id} |-> IF n = node_id THEN nd ELSE store[n]]
cache_set_latest_node(store, name, node_id) ==
    [n \in DOMAIN store \cup {name} |-> IF n = name THEN node_id ELSE store[n]]
cache_set_task_detail(store, task_id, td) ==
    [t \in DOMAIN store \cup {task_id} |-> IF t = task_id THEN td ELSE store[t]]
cache_has_task_detail(store, task_id) == task_id \in DOMAIN store

\* -------------------------------------------------------------- TaskBase
\* TaskBase::debug_mode
debug_mode == debug

\* the condition in front of every notify: debug_mode() || focus
ShouldNotify_FocusOnly(focus) == focus
ShouldNotify(focus) == debug_mode \/ focus

Event(kind, name, id, l) == [kind |-> kind, name |-> name, id |-> id, list |-> l]

\* TaskBase::notify: appended to the call's events, dropped without a Tasker
notify(evs, ev) == IF ~tasker_ THEN evs ELSE Append(evs, ev)

\* notify guarded by debug_mode() || focus
notify_if(evs, focus, ev) == IF ShouldNotify(focus) THEN notify(evs, ev) ELSE evs

\* reco_list_cb_detail of executor e
ListEvent(e, kind) == Event(kind, entry_[e], 0, list[e])

\* run_recognition returns {} at once: no context, or an empty image
RecoGuard_NoImageCheck(bound, img) == ~bound
RecoGuard_NoContextCheck(bound, img) == img.empty
RecoGuard(bound, img) == ~bound \/ img.empty

\* the candidate the loop stands at is passed over: if (!pipeline_data.enabled) continue
SkipCandidate_Never(pd) == FALSE
SkipCandidate(pd) == ~pd.enabled

\* the loop goes on to the next candidate: if (!result.box) continue
NoHit_Always(r) == TRUE
NoHit(r) == r.box = NoBox

\* result.box ? MaaMsg_Task_Recognition_Succeeded : MaaMsg_Task_Recognition_Failed
RecoKind_Swapped(r) == IF r.box # NoBox THEN "Recognition.Failed" ELSE "Recognition.Succeeded"
RecoKind(r) == IF r.box # NoBox THEN "Recognition.Succeeded" ELSE "Recognition.Failed"

\* ---- run_recognition ----------------------------------------------------
\* the messages of the two ways out of the loop
ListSucceededMsg == "NextList.Succeeded"
ListFailedMsg_AsSucceeded == "NextList.Succeeded"
ListFailedMsg == "NextList.Failed"

\* entry and the two guards: no context or an empty image return {};
\* current_focus; if (debug_mode() || current_focus) notify(NextList.Starting)
run_recognition(e, img, l) ==
    /\ pc[e] = "idle"
    /\ idx' = [idx EXCEPT ![e] = 1]
    /\ reco_calls' = [reco_calls EXCEPT ![e] = <<>>]
    /\ result' = [result EXCEPT ![e] = EmptyReco]
    /\ IF RecoGuard(ctx[e], img)
       THEN /\ returned' = [returned EXCEPT ![e] = [op |-> "run_recognition", value |-> EmptyReco]]
            /\ events' = [events EXCEPT ![e] = <<>>]
            /\ dbg_on' = [dbg_on EXCEPT ![e] = TRUE]
            /\ UNCHANGED <<pc, current_focus>>
       ELSE LET focus == get_pipeline_data(entry_[e]).focus
            IN  /\ current_focus' = [current_focus EXCEPT ![e] = focus]
                /\ returned' = [returned EXCEPT ![e] = [op |-> "none", value |-> EmptyReco]]
                /\ events' = [events EXCEPT ![e] =
                                notify_if(<<>>, focus, ListEvent(e, "NextList.Starting"))]
                /\ dbg_on' = [dbg_on EXCEPT ![e] = debug_mode]
                /\ pc' = [pc EXCEPT ![e] = "loop"]
    /\ UNCHANGED <<debug, pipeline, ctx, entry_, s_global_node_id, cache, image, list,
                   ra_locals, history>>

\* head of the for loop.  A disabled candidate is passed over; for an enabled one
\* if (debug_mode() || pipeline_data.focus) notify(Recognition.Starting); past the end
\* of the list if (debug_mode() || current_focus) notify(NextList.Failed); return {}
rr_loop(e) ==
    /\ pc[e] = "loop"
    /\ IF idx[e] > Len(list[e])
       THEN /\ events' = [events EXCEPT ![e] =
                            notify_if(@, current_focus[e], ListEvent(e, ListFailedMsg))]
            /\ dbg_on' = [dbg_on EXCEPT ![e] = @ /\ debug_mode]
            /\ returned' = [returned EXCEPT ![e] =
                              [op |-> "run_recognition", value |-> EmptyReco]]
            /\ pc' = [pc EXCEPT ![e] = "idle"]
            /\ UNCHANGED idx
       ELSE IF SkipCandidate(get_pipeline_data(list[e][idx[e]]))
       THEN /\ idx' = [idx EXCEPT ![e] = @ + 1]
            /\ UNCHANGED <<pc, events, dbg_on, returned>>
       ELSE LET name == list[e][idx[e]]
            IN  /\ events' = [events EXCEPT ![e] =
                                notify_if(@, get_pipeline_data(name).focus,
                                          Event("Recognition.Starting", name, 0, <<>>))]
                /\ dbg_on' = [dbg_on EXCEPT ![e] = @ /\ debug_mode]
                /\ pc' = [pc EXCEPT ![e] = "recognize"]
                /\ UNCHANGED <<idx, returned>>
    /\ UNCHANGED <<debug, pipeline, ctx, entry_, s_global_node_id, cache, image, list,
                   current_focus, reco_calls, ra_locals, result, history>>

\* RecoResult result = recognizer.recognize(pipeline_data);
\* if (debug_mode() || pipeline_data.focus) notify(Succeeded or Failed);
\* if (!result.box) continue
rr_recognize(e) ==
    /\ pc[e] = "recognize"
    /\ LET name == list[e][idx[e]]
           r == recognize(image[e], name, next_reco_id(e))
       IN  /\ result' = [result EXCEPT ![e] = r]
           /\ reco_calls' = [reco_calls EXCEPT ![e] =
                               Append(@, [idx |-> idx[e], name |-> name, result |-> r])]
           /\ events' = [events EXCEPT ![e] =
                           notify_if(@, get_pipeline_data(name).focus,
                                     Event(RecoKind(r), name, r.reco_id, <<>>))]
           /\ IF NoHit(r)
              THEN /\ idx' = [idx EXCEPT ![e] = @ + 1]
                   /\ pc' = [pc EXCEPT ![e] = "loop"]
              ELSE /\ pc' = [pc EXCEPT ![e] = "list_succeeded"]
                   /\ UNCHANGED idx
    /\ dbg_on' = [dbg_on EXCEPT ![e] = @ /\ debug_mode]
    /\ UNCHANGED <<debug, pipeline, ctx, entry_, s_global_node_id, cache, image, list,
                   current_focus, ra_locals, returned, history>>

\* if (debug_mode() || current_focus) notify(NextList.Succeeded); return result
rr_list_succeeded_CandidateFocus(e) ==
    /\ pc[e] = "list_succeeded"
    /\ events' = [events EXCEPT ![e] =
                    notify_if(@, get_pipeline_data(result[e].name).focus,
                              ListEvent(e, ListSucceededMsg))]
    /\ dbg_on' = [dbg_on EXCEPT ![e] = @ /\ debug_mode]
    /\ returned' = [returned EXCEPT ![e] = [op |-> "run_recognition", value |-> result[e]]]
    /\ pc' = [pc EXCEPT ![e] = "idle"]
    /\ UNCHANGED <<debug, pipeline, ctx, entry_, s_global_node_id, cache, rr_locals,
                   ra_locals, result, history>>
rr_list_succeeded(e) ==
    /\ pc[e] = "list_succeeded"
    /\ events' = [events EXCEPT ![e] =
                    notify_if(@, current_focus[e], ListEvent(e, ListSucceededMsg))]
    /\ dbg_on' = [dbg_on EXCEPT ![e] = @ /\ debug_mode]
    /\ returned' = [returned EXCEPT ![e] = [op |-> "run_recognition", value |-> result[e]]]
    /\ pc' = [pc EXCEPT ![e] = "idle"]
    /\ UNCHANGED <<debug, pipeline, ctx, entry_, s_global_node_id, cache, rr_locals,
                   ra_locals, result, history>>

\* another thread sets the process-wide debug option
SetDebugMode(b) ==
    /\ debug # b
    /\ debug' = b
    /\ UNCHANGED <<pipeline, ctx, entry_, s_global_node_id, cache, pc, rr_locals, ra_locals,
                   result, returned, events, dbg_on, history>>

\* ---- run_action ---------------------------------------------------------
\* run_action returns {} at once: no context, or a result without a box
ActionGuard_NoBoxCheck(bound, r) == ~bound
ActionGuard(bound, r) == ~bound \/ r.box = NoBox

\* std::atomic<MaaNodeId>::operator++ on s_global_node_id: one indivisible
\* read-modify-write, yielding the new value
fetch_add(counter) == counter + 1

\* TaskBase::generate_node_id: return ++s_global_node_id
generate_node_id_NoIncrement(counter) == counter
generate_node_id(counter) == fetch_add(counter)

\* NodeDetail result { .node_id, .name = reco.name, .reco_id = reco.reco_id, .completed = ret }
MakeNodeDetail_Completed(id, r, b) ==
    [node_id |-> id, name |-> r.name, reco_id |-> r.reco_id, completed |-> TRUE]
MakeNodeDetail(id, r, b) ==
    [node_id |-> id, name |-> r.name, reco_id |-> r.reco_id, completed |-> b]

\* result.completed ? MaaMsg_Task_Action_Succeeded : MaaMsg_Task_Action_Failed
ActionKind(completed) == IF completed THEN "Action.Succeeded" ELSE "Action.Failed"

\* cache.get_task_detail(task_id_).value_or(TaskDetail { .entry = entry_ })
get_task_detail_or_Fresh(store, e) == [entry |-> entry_[e], node_ids |-> <<>>]
get_task_detail_or(store, e) ==
    IF cache_has_task_detail(store, task_id_(e)) THEN store[task_id_(e)]
    ELSE [entry |-> entry_[e], node_ids |-> <<>>]

\* task_detail.node_ids.emplace_back(node_id)
emplace_back_AtFront(td, node_id) == [td EXCEPT !.node_ids = <<node_id>> \o @]
emplace_back(td, node_id) == [td EXCEPT !.node_ids = Append(@, node_id)]

\* TaskBase::set_task_detail: nothing without a Tasker, else cache.set_task_detail
set_task_detail_Dropped(store, e, td) == store
set_task_detail_OtherTask(store, e, td) ==
    cache_set_task_detail(store, task_id_(CHOOSE o \in Executors : o # e), td)
set_task_detail(store, e, td) ==
    IF ~tasker_ THEN store ELSE cache_set_task_detail(store, task_id_(e), td)

\* one more record with this node id has been returned
CountReturn(counts, node_id) ==
    [n \in DOMAIN counts \cup {node_id} |->
        IF n = node_id THEN (IF n \in DOMAIN counts THEN counts[n] + 1 ELSE 1) ELSE counts[n]]

\* the calls that passed the guards and have not yet drawn their node id
AwaitingNodeId ==
    Cardinality({x \in Executors : pc[x] = "actuate"})

\* entry and the two guards; const auto& pipeline_data = get_pipeline_data(reco.name);
\* if (debug_mode() || pipeline_data.focus) notify(Action.Starting), node_id 0
run_action(e, r) ==
    /\ pc[e] = "idle"
    /\ reco' = [reco EXCEPT ![e] = r]
    /\ ret' = [ret EXCEPT ![e] = FALSE]
    /\ detail' = [detail EXCEPT ![e] = EmptyNode]
    /\ act_calls' = [act_calls EXCEPT ![e] = 0]
    /\ pre_node_ids' = [pre_node_ids EXCEPT ![e] = get_task_detail_or(task_details, e).node_ids]
    /\ IF ActionGuard(ctx[e], r)
       THEN /\ returned' = [returned EXCEPT ![e] = [op |-> "run_action", value |-> EmptyNode]]
            /\ events' = [events EXCEPT ![e] = <<>>]
            /\ dbg_on' = [dbg_on EXCEPT ![e] = TRUE]
            /\ UNCHANGED pc
       ELSE /\ Len(allocated) + AwaitingNodeId < MaxNodeId
            /\ returned' = [returned EXCEPT ![e] = [op |-> "none", value |-> EmptyNode]]
            /\ events' = [events EXCEPT ![e] =
                            notify_if(<<>>, get_pipeline_data(r.name).focus,
                                      Event("Action.Starting", r.name, 0, <<>>))]
            /\ dbg_on' = [dbg_on EXCEPT ![e] = debug_mode]
            /\ pc' = [pc EXCEPT ![e] = "actuate"]
    /\ UNCHANGED <<debug, pipeline, ctx, entry_, s_global_node_id, cache, rr_locals, result,
                   task_detail, history>>

\* bool ret = actuator.run(*reco.box, reco.reco_id, pipeline_data);
\* NodeDetail result { .node_id = generate_node_id(), ... }
ra_actuate(e) ==
    /\ pc[e] = "actuate"
    /\ \E b \in BOOLEAN :
         LET id == generate_node_id(s_global_node_id)
         IN  /\ ret' = [ret EXCEPT ![e] = b]
             /\ s_global_node_id' = id
             /\ detail' = [detail EXCEPT ![e] = MakeNodeDetail(id, reco[e], b)]
             /\ allocated' = Append(allocated, [node_id |-> id, e |-> e])
    /\ act_calls' = [act_calls EXCEPT ![e] = @ + 1]
    /\ pc' = [pc EXCEPT ![e] = "set_node_detail"]
    /\ UNCHANGED <<debug, pipeline, ctx, entry_, cache, rr_locals, result, reco,
                   task_detail, pre_node_ids, returned, events, dbg_on, returns>>

\* set_node_detail: without a Tasker return, else cache.set_node_detail(node_id, detail)
ra_set_node_detail_Skipped(e) ==
    /\ pc[e] = "set_node_detail"
    /\ pc' = [pc EXCEPT ![e] = "action_done"]
    /\ UNCHANGED <<debug, pipeline, ctx, entry_, s_global_node_id, cache, rr_locals, result,
                   ra_locals, returned, events, dbg_on, history>>
ra_set_node_detail(e) ==
    /\ pc[e] = "set_node_detail"
    /\ IF ~tasker_
       THEN /\ pc' = [pc EXCEPT ![e] = "action_done"]
            /\ UNCHANGED node_details
       ELSE /\ node_details' = cache_set_node_detail(node_details, detail[e].node_id, detail[e])
            /\ pc' = [pc EXCEPT ![e] = "set_latest_node"]
    /\ UNCHANGED <<debug, pipeline, ctx, entry_, s_global_node_id, latest_node, task_details,
                   rr_locals, result, ra_locals, returned, events, dbg_on, history>>

\* cache.set_latest_node(detail.name, node_id)
ra_set_latest_node(e) ==
    /\ pc[e] = "set_latest_node"
    /\ latest_node' = cache_set_latest_node(latest_node, detail[e].name, detail[e].node_id)
    /\ pc' = [pc EXCEPT ![e] = "get_task_detail"]
    /\ UNCHANGED <<debug, pipeline, ctx, entry_, s_global_node_id, node_details, task_details,
                   rr_locals, result, ra_locals, returned, events, dbg_on, history>>

\* TaskDetail task_detail = cache.get_task_detail(task_id_).value_or(...);
\* task_detail.node_ids.emplace_back(node_id)
ra_get_task_detail(e) ==
    /\ pc[e] = "get_task_detail"
    /\ task_detail' = [task_detail EXCEPT ![e] =
                         emplace_back(get_task_detail_or(task_details, e), detail[e].node_id)]
    /\ pc' = [pc EXCEPT ![e] = "set_task_detail"]
    /\ UNCHANGED <<debug, pipeline, ctx, entry_, s_global_node_id, cache, rr_locals, result,
                   reco, ret, detail, act_calls, pre_node_ids, returned, events, dbg_on,
                   history>>

\* set_task_detail(task_detail)
ra_set_task_detail(e) ==
    /\ pc[e] = "set_task_detail"
    /\ task_details' = set_task_detail(task_details, e, task_detail[e])
    /\ pc' = [pc EXCEPT ![e] = "action_done"]
    /\ UNCHANGED <<debug, pipeline, ctx, entry_, s_global_node_id, node_details, latest_node,
                   rr_locals, result, ra_locals, returned, events, dbg_on, history>>

\* if (debug_mode() || pipeline_data.focus) notify(Succeeded or Failed); return result
ra_action_done(e) ==
    /\ pc[e] = "action_done"
    /\ events' = [events EXCEPT ![e] =
                    notify_if(@, get_pipeline_data(reco[e].name).focus,
                              Event(ActionKind(detail[e].completed), reco[e].name,
                                    detail[e].node_id, <<>>))]
    /\ dbg_on' = [dbg_on EXCEPT ![e] = @ /\ debug_mode]
    /\ returned' = [returned EXCEPT ![e] = [op |-> "run_action", value |-> detail[e]]]
    /\ returns' = CountReturn(returns, detail[e].node_id)
    /\ pc' = [pc EXCEPT ![e] = "idle"]
    /\ UNCHANGED <<debug, pipeline, ctx, entry_, s_global_node_id, cache, rr_locals, result,
                   ra_locals, allocated>>

\* ---- construction -------------------------------------------------------
\* TaskBase::init, from the constructors: the task's record, with no node yet
init_Nothing(store, e) == store
init(store, e) == set_task_detail(store, e, [entry |-> entry_[e], node_ids |-> <<>>])

RECURSIVE InitAll(_, _)
InitAll(store, es) ==
    IF es = {} THEN store
    ELSE LET e == CHOOSE x \in es : TRUE IN InitAll(init(store, e), es \ {e})

\* the state once the executors are constructed
Constructed ==
    /\ debug \in BOOLEAN
    /\ entry_ \in [Executors -> EntryNames]
    /\ s_global_node_id = 0
    /\ node_details = <<>>
    /\ latest_node = <<>>
    /\ task_details = InitAll(<<>>, Executors)
    /\ pc = [e \in Executors |-> "idle"]
    /\ idx = [e \in Executors |-> 1]
    /\ current_focus = [e \in Executors |-> FALSE]
    /\ result = [e \in Executors |-> EmptyReco]
    /\ reco = [e \in Executors |-> EmptyReco]
    /\ ret = [e \in Executors |-> FALSE]
    /\ task_detail = [e \in Executors |-> [entry |-> "", node_ids |-> <<>>]]
    /\ returned = [e \in Executors |-> [op |-> "none", value |-> EmptyReco]]
    /\ events = [e \in Executors |-> <<>>]
    /\ reco_calls = [e \in Executors |-> <<>>]
    /\ act_calls = [e \in Executors |-> 0]
    /\ dbg_on = [e \in Executors |-> TRUE]
    /\ pre_node_ids = [e \in Executors |-> <<>>]
    /\ detail = [e \in Executors |-> EmptyNode]
    /\ allocated = <<>>
    /\ returns = <<>>

\* ---- recognition: one executor's run_recognition calls, the debug option
\* ---- changing under them
InitReco ==
    /\ Constructed
    /\ \E en \in SUBSET Names, fo \in SUBSET FocusNames :
         pipeline = [n \in Names |-> [enabled |-> n \in en, focus |-> n \in fo]]
    /\ \E c \in BOOLEAN : ctx = [e \in Executors |-> e # UnboundExecutor \/ c]
    /\ \E img \in Images :
         image = [e \in Executors |-> IF e = RecoExecutor THEN img ELSE EmptyImage]
    /\ \E l \in NextLists :
         list = [e \in Executors |-> IF e = RecoExecutor THEN l ELSE <<>>]

NextReco ==
    \/ run_recognition(RecoExecutor, image[RecoExecutor], list[RecoExecutor])
    \/ rr_loop(RecoExecutor)
    \/ rr_recognize(RecoExecutor)
    \/ rr_list_succeeded(RecoExecutor)
    \/ \E b \in BOOLEAN : SetDebugMode(b)

SpecReco == InitReco /\ [][NextReco]_vars

\* ---- actions: the executors' run_action calls, interleaved, with the debug
\* ---- option off: node A has its focus flag set and notifies, node B does not
ActResults ==
    {EmptyReco, [name |-> "A", reco_id |-> 1, box |-> Rect("A")],
                [name |-> "B", reco_id |-> 2, box |-> Rect("B")]}

InitAct ==
    /\ Constructed
    /\ ~debug
    /\ pipeline = [n \in Names |-> [enabled |-> TRUE, focus |-> n = "A"]]
    /\ \E c \in BOOLEAN : ctx = [e \in Executors |-> e # UnboundExecutor \/ c]
    /\ image = [e \in Executors |-> EmptyImage]
    /\ list = [e \in Executors |-> <<>>]

NextAct ==
    \/ \E e \in Executors, r \in ActResults : run_action(e, r)
    \/ \E e \in Executors : ra_actuate(e)
    \/ \E e \in Executors : ra_set_node_detail(e)
    \/ \E e \in Executors : ra_set_latest_node(e)
    \/ \E e \in Executors : ra_get_task_detail(e)
    \/ \E e \in Executors : ra_set_task_detail(e)
    \/ \E e \in Executors : ra_action_done(e)

SpecAct == InitAct /\ [][NextAct]_vars

\* ---- the other public operations -----------------------------------------
\* Context::override_pipeline: the Context owns the merge; a patch here enables or
\* disables one node, and the Context answers whether it took the patch
OverridePatches == {[name |-> "C", enabled |-> b] : b \in BOOLEAN}
context_override_pipeline(pl, patch) == [pl EXCEPT ![patch.name].enabled = patch.enabled]

\* the value of context_ && context_->override_pipeline(pipeline_override)
OverrideResult(bound, ok) == bound /\ ok

\* TaskBase::override_pipeline; ok is the Context's answer to the patch
override_pipeline(e, patch, ok) ==
    /\ pc[e] = "idle"
    /\ pipeline' = IF ctx[e] /\ ok THEN context_override_pipeline(pipeline, patch)
                   ELSE pipeline
    /\ returned' = [returned EXCEPT ![e] =
                      [op |-> "override_pipeline", value |-> OverrideResult(ctx[e], ok)]]
    /\ events' = [events EXCEPT ![e] = <<>>]
    /\ dbg_on' = [dbg_on EXCEPT ![e] = TRUE]
    /\ UNCHANGED <<debug, ctx, entry_, s_global_node_id, cache, pc, rr_locals, result,
                   ra_locals, history>>

\* TaskBase::controller: tasker_ ? tasker_->controller() : nullptr
controller(has_controller) == tasker_ /\ has_controller

\* TaskBase::screencap: {} without a controller, else what the controller captured
screencap(e, has_controller, frame) ==
    /\ pc[e] = "idle"
    /\ returned' = [returned EXCEPT ![e] =
                      [op |-> "screencap",
                       value |-> IF ~controller(has_controller) THEN EmptyImage ELSE frame]]
    /\ events' = [events EXCEPT ![e] = <<>>]
    /\ dbg_on' = [dbg_on EXCEPT ![e] = TRUE]
    /\ UNCHANGED <<debug, pipeline, ctx, entry_, s_global_node_id, cache, pc, rr_locals,
                   result, ra_locals, history>>

\* ---- one task: an executor's recognitions, actions, overrides and screencaps one
\* ---- after the other, the debug option changing under them
TaskList == <<"C", "A", "B">>
TaskImages == {[empty |-> FALSE, hits |-> {n}] : n \in HitNames}

InitTask ==
    /\ Constructed
    /\ \E fa \in BOOLEAN :
         pipeline = [n \in Names |-> [enabled |-> n # "C", focus |-> n = "A" /\ fa]]
    /\ \E c \in BOOLEAN : ctx = [e \in Executors |-> e # UnboundExecutor \/ c]
    /\ \E img \in TaskImages :
         image = [e \in Executors |-> IF e = RecoExecutor THEN img ELSE EmptyImage]
    /\ list = [e \in Executors |-> IF e = RecoExecutor THEN TaskList ELSE <<>>]

NextTask ==
    \/ run_recognition(RecoExecutor, image[RecoExecutor], list[RecoExecutor])
    \/ rr_loop(RecoExecutor)
    \/ rr_recognize(RecoExecutor)
    \/ rr_list_succeeded(RecoExecutor)
    \/ \E r \in ActResults : run_action(RecoExecutor, r)
    \/ ra_actuate(RecoExecutor)
    \/ ra_set_node_detail(RecoExecutor)
    \/ ra_set_latest_node(RecoExecutor)
    \/ ra_get_task_detail(RecoExecutor)
    \/ ra_set_task_detail(RecoExecutor)
    \/ ra_action_done(RecoExecutor)
    \/ \E patch \in OverridePatches, ok \in BOOLEAN : override_pipeline(RecoExecutor, patch, ok)
    \/ \E hc \in BOOLEAN, frame \in TaskImages \cup {EmptyImage} :
         screencap(RecoExecutor, hc, frame)
    \/ \E b \in BOOLEAN : SetDebugMode(b)

SpecTask == InitTask /\ [][NextTask]_vars

\* ---- the executors side by side: every executor's run_action calls, and one
\* ---- executor's recognitions, overrides and screencaps between its actions
FrameResults == {[name |-> "A", reco_id |-> 1, box |-> Rect("A")]}

InitFrame ==
    /\ Constructed
    /\ ~debug
    /\ pipeline = [n \in Names |-> [enabled |-> n # "C", focus |-> n = "A"]]
    /\ ctx = [e \in Executors |-> TRUE]
    /\ image = [e \in Executors |->
                  IF e = RecoExecutor THEN [empty |-> FALSE, hits |-> {"B"}] ELSE EmptyImage]
    /\ list = [e \in Executors |-> IF e = RecoExecutor THEN TaskList ELSE <<>>]

NextFrame ==
    \/ run_recognition(RecoExecutor, image[RecoExecutor], list[RecoExecutor])
    \/ rr_loop(RecoExecutor)
    \/ rr_recognize(RecoExecutor)
    \/ rr_list_succeeded(RecoExecutor)
    \/ \E patch \in OverridePatches, ok \in BOOLEAN : override_pipeline(RecoExecutor, patch, ok)
    \/ \E hc \in BOOLEAN : screencap(RecoExecutor, hc, image[RecoExecutor])
    \/ \E e \in Executors, r \in FrameResults : run_action(e, r)
    \/ \E e \in Executors : ra_actuate(e)
    \/ \E e \in Executors : ra_set_node_detail(e)
    \/ \E e \in Executors : ra_set_latest_node(e)
    \/ \E e \in Executors : ra_get_task_detail(e)
    \/ \E e \in Executors : ra_set_task_detail(e)
    \/ \E e \in Executors : ra_action_done(e)

SpecFrame == InitFrame /\ [][NextFrame]_vars

\* ======================================================= run_recognition
\* the call of executor e has returned
RecoReturned(e) == pc[e] = "idle" /\ returned[e].op = "run_recognition"

\* the call of executor e got past the context and image guards
RecoEntered(e) == ctx[e] /\ ~image[e].empty

\* the candidate at position i of e's list is enabled and its condition holds on the frame
EnabledMatch(e, i) ==
    /\ get_pipeline_data(list[e][i]).enabled
    /\ list[e][i] \in image[e].hits

\* the positions of the enabled, matching candidates
EnabledMatches(e) == {i \in 1..Len(list[e]) : EnabledMatch(e, i)}
FirstMatch(e) == CHOOSE i \in EnabledMatches(e) : \A j \in EnabledMatches(e) : i <= j

KindName(ev) == <<ev.kind, ev.name>>
KindNames(evs) == [i \in 1..Len(evs) |-> KindName(evs[i])]
EventsOfKind(evs, kinds) == {i \in 1..Len(evs) : evs[i].kind \in kinds}
RecognitionKinds == {"Recognition.Starting", "Recognition.Succeeded", "Recognition.Failed"}

\* C1: one run_recognition call invokes the Recognizer only on enabled candidates, in
\* list order, at most once per list entry, and never on a candidate positioned after
\* the first enabled candidate that matched.
C1_OrderShortCircuit ==
    LET e == RecoExecutor
        calls == reco_calls[e]
    IN  /\ \A i \in 1..Len(calls) :
              /\ calls[i].idx \in 1..Len(list[e])
              /\ calls[i].name = list[e][calls[i].idx]
              /\ get_pipeline_data(calls[i].name).enabled
              /\ \A k \in 1..(calls[i].idx - 1) : ~EnabledMatch(e, k)
        /\ \A i, j \in 1..Len(calls) : i < j => calls[i].idx < calls[j].idx

\* a returned call that passed over a disabled candidate, recognized one without a hit,
\* hit on the next and left a candidate behind the hit alone
C1_Witness ==
    LET e == RecoExecutor
        calls == reco_calls[e]
    IN  /\ RecoReturned(e)
        /\ Len(calls) = 2
        /\ calls[1].result.box = NoBox
        /\ calls[2].result.box # NoBox
        /\ calls[2].idx < Len(list[e])
        /\ \E k \in 1..Len(list[e]) : ~get_pipeline_data(list[e][k]).enabled

\* C2: with a bound context and a non-empty frame, run_recognition returns a result with
\* a box iff some candidate is enabled and matching; the result is then the Recognizer's
\* result for the first such candidate in list order, and the empty result otherwise.
C2_FirstMatchSelection ==
    LET e == RecoExecutor
        calls == reco_calls[e]
        r == returned[e].value
    IN  (RecoReturned(e) /\ RecoEntered(e)) =>
            /\ (r.box # NoBox) <=> (EnabledMatches(e) # {})
            /\ IF EnabledMatches(e) # {}
               THEN /\ Len(calls) > 0
                    /\ calls[Len(calls)].idx = FirstMatch(e)
                    /\ r = calls[Len(calls)].result
                    /\ r.name = list[e][FirstMatch(e)]
                    /\ r.box = Rect(r.name)
               ELSE r = EmptyReco

\* [A disabled, B enabled non-matching, C enabled matching] returned C with C's region
C2_Witness ==
    LET e == RecoExecutor
    IN  /\ RecoReturned(e)
        /\ list[e] = <<"A", "B", "C">>
        /\ ~pipeline["A"].enabled /\ pipeline["B"].enabled /\ pipeline["C"].enabled
        /\ image[e] = [empty |-> FALSE, hits |-> {"C"}]
        /\ returned[e].value.name = "C"
        /\ returned[e].value.box = <<10, 10, 5, 5>>

\* the Recognition.* events the candidates from position i on give rise to, up to and
\* including the first match, when every notification is sent
RECURSIVE CandidateEvents(_, _)
CandidateEvents(e, i) ==
    IF i > Len(list[e]) THEN <<>>
    ELSE LET name == list[e][i]
         IN  IF ~get_pipeline_data(name).enabled THEN CandidateEvents(e, i + 1)
             ELSE IF EnabledMatch(e, i)
             THEN << <<"Recognition.Starting", name>>, <<"Recognition.Succeeded", name>> >>
             ELSE << <<"Recognition.Starting", name>>, <<"Recognition.Failed", name>> >>
                  \o CandidateEvents(e, i + 1)

\* the case of C3: a returned call that ran its loop, with debug mode on at every
\* notification decision and an enabled candidate that matches
C3_Case(e) ==
    /\ RecoReturned(e) /\ RecoEntered(e)
    /\ dbg_on[e]
    /\ EnabledMatches(e) # {}

\* C3 as stated: the events of such a call are exactly the candidates' Recognition.*
\* events followed by NextList.Succeeded, and nothing else.
C3_Original ==
    LET e == RecoExecutor
    IN  C3_Case(e) =>
            KindNames(events[e]) =
                CandidateEvents(e, 1) \o << <<"NextList.Succeeded", entry_[e]>> >>

\* C3 (amended): with debug mode on for the whole call and an enabled candidate that
\* matches, the events of one run_recognition call are exactly NextList.Starting, then
\* for each enabled candidate up to and including the first match, in list order,
\* Recognition.Starting(name) followed at once by Recognition.Failed(name) or, for the
\* match, Recognition.Succeeded(name), then NextList.Succeeded, and nothing else.
C3_EventSequence ==
    LET e == RecoExecutor
    IN  C3_Case(e) =>
            KindNames(events[e]) =
                << <<"NextList.Starting", entry_[e]>> >>
                \o CandidateEvents(e, 1)
                \o << <<"NextList.Succeeded", entry_[e]>> >>

\* [A disabled, B enabled non-matching, C enabled matching] under debug mode
C3_Witness ==
    LET e == RecoExecutor
    IN  /\ C3_Case(e)
        /\ list[e] = <<"A", "B", "C">>
        /\ ~pipeline["A"].enabled /\ pipeline["B"].enabled /\ pipeline["C"].enabled
        /\ image[e].hits = {"C"}
        /\ ~pipeline["A"].focus /\ ~pipeline["B"].focus
        /\ Len(events[e]) = 6
        /\ events[e][5].kind = "Recognition.Succeeded" /\ events[e][5].name = "C"

C5_EmptyFrame ==
    LET e == RecoExecutor
    IN  image[e].empty =>
            /\ reco_calls[e] = <<>>
            /\ EventsOfKind(events[e], RecognitionKinds) = {}
            /\ pc[e] = "idle"
            /\ returned[e].op = "run_recognition" => returned[e].value = EmptyReco

\* an empty frame handed in with a bound context, debug mode on and an enabled,
\* focused candidate in the list
C5_Witness ==
    LET e == RecoExecutor
    IN  /\ RecoReturned(e)
        /\ image[e].empty
        /\ ctx[e]
        /\ debug
        /\ \E i \in 1..Len(list[e]) :
              get_pipeline_data(list[e][i]).enabled /\ get_pipeline_data(list[e][i]).focus

\* ============================================================ run_action
\* the call of executor e has returned
ActionReturned(e) == pc[e] = "idle" /\ returned[e].op = "run_action"

\* the call of executor e has returned a record (not the empty one)
ActionReturnedRecord(e) == ActionReturned(e) /\ returned[e].value # EmptyNode

\* the history of executor e's task in the cache
NodeIdsOf(e) == get_task_detail_or(task_details, e).node_ids
InHistory(e, n) == \E i \in 1..Len(NodeIdsOf(e)) : NodeIdsOf(e)[i] = n

\* executor e is inside set_node_detail, between its first and its last cache write
InsideSetNodeDetail(e) == pc[e] \in {"set_latest_node", "get_task_detail", "set_task_detail"}

ActionKinds == {"Action.Starting", "Action.Succeeded", "Action.Failed"}

\* C6: across any number of run_action calls with matched results, sequential or
\* interleaved, by one or several executors sharing the node-id counter, the node ids of
\* the returned records are pairwise distinct and strictly increasing in allocation
\* order; two executors racing in generate_node_id never obtain the same value.
C6_NodeIdsUnique ==
    /\ \A i, j \in 1..Len(allocated) : i < j => allocated[i].node_id < allocated[j].node_id
    /\ \A n \in DOMAIN returns :
          /\ returns[n] = 1
          /\ \E i \in 1..Len(allocated) : allocated[i].node_id = n
    /\ \A e \in Executors :
          ActionReturnedRecord(e) =>
              /\ returned[e].value.node_id \in DOMAIN returns
              /\ \E i \in 1..Len(allocated) :
                    allocated[i] = [node_id |-> returned[e].value.node_id, e |-> e]
    /\ \A e1, e2 \in Executors :
          (e1 # e2 /\ detail[e1] # EmptyNode /\ detail[e2] # EmptyNode) =>
              detail[e1].node_id # detail[e2].node_id

\* two executors drew their ids one after the other, both calls in flight at once,
\* and both have returned their records
C6_Witness ==
    /\ Len(allocated) = 2
    /\ allocated[1].e # allocated[2].e
    /\ \A e \in {allocated[1].e, allocated[2].e} : ActionReturnedRecord(e)
    /\ returned[allocated[1].e].value.node_id = 1
    /\ returned[allocated[2].e].value.node_id = 2
    /\ NodeIdsOf(allocated[1].e) = <<1>>
    /\ NodeIdsOf(allocated[2].e) = <<2>>

\* C7: after a run_action call with a matched result on the executor of task T returned
\* a record with node id n, T's orderedNodeIds equals its value before the call with
\* exactly n appended at the end, whatever the other executors did meanwhile; while the
\* call runs the earlier entries stay as they were.
C7_HistoryAppend ==
    \A e \in Executors :
        /\ ActionReturnedRecord(e) =>
               NodeIdsOf(e) = Append(pre_node_ids[e], returned[e].value.node_id)
        /\ pc[e] # "idle" =>
               \/ NodeIdsOf(e) = pre_node_ids[e]
               \/ NodeIdsOf(e) = Append(pre_node_ids[e], detail[e].node_id)

\* a second action of the same task: the earlier entry kept, the new id behind it
C7_Witness ==
    \E e \in Executors :
        /\ ActionReturnedRecord(e)
        /\ pre_node_ids[e] = <<1>>
        /\ NodeIdsOf(e) = <<1, 2>>

\* C8: run_action with a result that has no box returns the empty record and has no side
\* effect: the Actuator is not invoked, no node id is drawn from the counter, no
\* Action.* event is emitted and the Runtime Cache is left as it was.
C8_NoBoxNoEffect ==
    [][\A e \in Executors :
          ( /\ pc[e] = "idle"
            /\ <<pc[e], reco[e], returned[e], events[e], act_calls[e]>>'
                   # <<pc[e], reco[e], returned[e], events[e], act_calls[e]>>
            /\ reco'[e].box = NoBox )
          => /\ pc'[e] = "idle"
             /\ returned'[e] = [op |-> "run_action", value |-> EmptyNode]
             /\ act_calls'[e] = 0
             /\ EventsOfKind(events'[e], ActionKinds) = {}
             /\ s_global_node_id' = s_global_node_id
             /\ allocated' = allocated
             /\ node_details' = node_details
             /\ latest_node' = latest_node
             /\ task_details' = task_details]_vars

\* an executor with a context was handed the empty result while the cache held a node
C8_Witness ==
    \E e \in Executors :
        /\ ActionReturned(e)
        /\ ctx[e]
        /\ reco[e] = EmptyReco
        /\ returned[e].value = EmptyNode
        /\ DOMAIN node_details # {}
        /\ events[e] = <<>>

\* C9: every run_action call (on an executor with a context) whose result carries a box
\* draws a fresh node id, whatever the Actuator returns, and once it has returned
\* getNodeDetail(nodeId) is the returned record {nodeId, name and recognition id of the
\* result, completed = the Actuator's boolean}; false is stored as completed = false.
C9_RecordStored ==
    \A e \in Executors :
        (ActionReturned(e) /\ ctx[e] /\ reco[e].box # NoBox) =>
            LET d == returned[e].value
            IN  /\ act_calls[e] = 1
                /\ d = [node_id |-> d.node_id, name |-> reco[e].name,
                        reco_id |-> reco[e].reco_id, completed |-> ret[e]]
                /\ d.node_id > 0
                /\ \A i \in 1..Len(pre_node_ids[e]) : pre_node_ids[e][i] # d.node_id
                /\ \E i \in 1..Len(allocated) : allocated[i] = [node_id |-> d.node_id, e |-> e]
                /\ d.node_id \in DOMAIN node_details
                /\ node_details[d.node_id] = d

\* the Actuator reported false: a record with completed = false is returned and stored
C9_Witness ==
    \E e \in Executors :
        /\ ActionReturnedRecord(e)
        /\ ~ret[e]
        /\ ~returned[e].value.completed
        /\ node_details[returned[e].value.node_id] = returned[e].value

\* C10 as stated: in every state a node id is in the node-detail store iff it is in the
\* orderedNodeIds of its creator's task, and no latest-node entry is without its
\* task-history entry.
C10_Original ==
    /\ \A i \in 1..Len(allocated) :
          (allocated[i].node_id \in DOMAIN node_details)
              <=> InHistory(allocated[i].e, allocated[i].node_id)
    /\ \A name \in DOMAIN latest_node :
          \E e \in Executors : InHistory(e, latest_node[name])

\* C10 (amended): the node-record write, the latest-node write and the append to the
\* task's history are separate cache operations.  In every state an id in a task's
\* orderedNodeIds has its node record and a latest-node entry for its name; a node record
\* or latest-node entry whose id is not in its creator's history belongs to a run_action
\* of that creator that is still inside set_node_detail, and once it has left
\* set_node_detail the id is in the history.
C10_WritesFollowEachOther ==
    /\ \A i \in 1..Len(allocated) :
          LET n == allocated[i].node_id
              e == allocated[i].e
          IN  /\ InHistory(e, n) =>
                     /\ n \in DOMAIN node_details
                     /\ node_details[n].name \in DOMAIN latest_node
              /\ (n \in DOMAIN node_details /\ ~InHistory(e, n)) =>
                     (InsideSetNodeDetail(e) /\ detail[e].node_id = n)
              /\ (pc[e] \in {"action_done", "idle"} \/ detail[e].node_id # n) =>
                     (n \in DOMAIN node_details /\ InHistory(e, n))
    /\ \A name \in DOMAIN latest_node :
          \E i \in 1..Len(allocated) :
              /\ allocated[i].node_id = latest_node[name]
              /\ \/ InHistory(allocated[i].e, latest_node[name])
                 \/ InsideSetNodeDetail(allocated[i].e)

\* another executor is at rest while a node record and its latest-node entry are in the
\* cache and the creator has not yet appended the id to its task's history
C10_Witness ==
    \E e, o \in Executors :
        /\ o # e
        /\ pc[o] = "idle"
        /\ pc[e] = "set_task_detail"
        /\ detail[e].node_id \in DOMAIN node_details
        /\ latest_node[detail[e].name] = detail[e].node_id
        /\ ~InHistory(e, detail[e].node_id)

\* ============================================== one task, debug mode changing
\* the nodes whose focus flag is set
Focused == {n \in Names : get_pipeline_data(n).focus}

\* the events of evs of the given kinds that name a node in names
EventsNaming(evs, kinds, names) ==
    SelectSeq(evs, LAMBDA ev : ev.kind \in kinds /\ ev.name \in names)

\* the Recognition.* events owed to the Recognizer invocations calls on nodes in names
RECURSIVE OwedRecoEvents(_, _)
OwedRecoEvents(calls, names) ==
    IF calls = <<>> THEN <<>>
    ELSE LET c == Head(calls)
         IN  (IF c.name \in names
              THEN << Event("Recognition.Starting", c.name, 0, <<>>),
                      Event(RecoKind(c.result), c.name, c.result.reco_id, <<>>) >>
              ELSE <<>>)
             \o OwedRecoEvents(Tail(calls), names)

\* the Action.* events owed to a run_action call that returned the record d
OwedActionEvents(d) ==
    << Event("Action.Starting", d.name, 0, <<>>),
       Event(ActionKind(d.completed), d.name, d.node_id, <<>>) >>

\* what the step of executor e passed to notify
NewEvents(e) ==
    IF pc[e] = "idle" THEN (IF pc'[e] = "idle" THEN <<>> ELSE events'[e])
    ELSE SubSeq(events'[e], Len(events[e]) + 1, Len(events'[e]))

\* C11: a returned run_recognition call whose debug_mode() reads all gave true has
\* emitted Recognition.Starting and Recognition.Succeeded/Failed for every candidate it
\* handed to the Recognizer, and a returned run_action call of that kind Action.Starting
\* and Action.Succeeded/Failed, whatever the focus flags; a node whose focus flag is set
\* has these events whatever the debug mode; and a notification decision taken with debug
\* mode off emits a Recognition.* or Action.* event only for a node whose focus flag is set.
C11_DebugFocusGating ==
    [][ LET e == RecoExecutor
        IN  /\ RecoReturned(e)' =>
                 /\ dbg_on'[e] =>
                       EventsNaming(events'[e], RecognitionKinds, Names)
                           = OwedRecoEvents(reco_calls'[e], Names)
                 /\ EventsNaming(events'[e], RecognitionKinds, Focused)
                       = OwedRecoEvents(reco_calls'[e], Focused)
            /\ ActionReturnedRecord(e)' =>
                 /\ (dbg_on'[e] \/ returned'[e].value.name \in Focused) =>
                       events'[e] = OwedActionEvents(returned'[e].value)
            /\ ~debug =>
                 \A i \in 1..Len(NewEvents(e)) :
                     NewEvents(e)[i].kind \in RecognitionKinds \cup ActionKinds
                         => NewEvents(e)[i].name \in Focused ]_vars

\* under debug mode a call evaluated the unfocused candidates A and B and emitted the
\* Starting and Failed or Succeeded events of both
C11_Witness ==
    LET e == RecoExecutor
    IN  /\ Focused = {}
        /\ RecoReturned(e)
        /\ dbg_on[e]
        /\ Len(reco_calls[e]) = 2
        /\ Len(EventsNaming(events[e], RecognitionKinds, {"A", "B"})) = 4

\* C12: every call on an executor without a Context returns at once: run_recognition the
\* empty result, run_action the empty record, override_pipeline false; the Recognizer and
\* the Actuator are not invoked, nothing is notified, no node id is drawn, and the Runtime
\* Cache and the pipeline are left as they were.
C12_UnboundContext ==
    [][ LET e == UnboundExecutor
        IN  ~ctx[e] =>
              /\ pc'[e] = "idle"
              /\ returned'[e].op = "run_recognition" => returned'[e].value = EmptyReco
              /\ returned'[e].op = "run_action" => returned'[e].value = EmptyNode
              /\ returned'[e].op = "override_pipeline" => returned'[e].value = FALSE
              /\ events'[e] = <<>>
              /\ reco_calls'[e] = <<>>
              /\ act_calls'[e] = 0
              /\ s_global_node_id' = s_global_node_id
              /\ allocated' = allocated
              /\ node_details' = node_details
              /\ latest_node' = latest_node
              /\ task_details' = task_details
              /\ pipeline' = pipeline ]_vars

\* an executor without a Context was handed a matched result under debug mode, and its
\* override_pipeline has then answered false
C12_Witness ==
    LET e == UnboundExecutor
    IN  /\ ~ctx[e]
        /\ debug
        /\ reco[e].box # NoBox
        /\ returned[e] = [op |-> "override_pipeline", value |-> FALSE]

\* executor e has not been called since it was constructed
NeverCalled(e) == pc[e] = "idle" /\ returned[e].op = "none"

\* C13: from the end of construction on, getTaskDetail(taskId) of every executor gives a
\* record whose entry is the executor's entry node; its orderedNodeIds is empty as long
\* as the executor has not been called; no operation removes the record.
C13_EagerTaskRecord ==
    \A e \in Executors :
        /\ cache_has_task_detail(task_details, task_id_(e))
        /\ task_details[task_id_(e)].entry = entry_[e]
        /\ NeverCalled(e) => task_details[task_id_(e)] = [entry |-> entry_[e], node_ids |-> <<>>]

\* an executor that was never called still has its empty record, next to an executor
\* whose record has grown by an action and kept its entry
C13_Witness ==
    \E e, o \in Executors :
        /\ NeverCalled(o)
        /\ task_details[task_id_(o)] = [entry |-> entry_[o], node_ids |-> <<>>]
        /\ ActionReturnedRecord(e)
        /\ task_details[task_id_(e)].entry = entry_[e]
        /\ Len(task_details[task_id_(e)].node_ids) = 2

\* ================================================== the executors side by side
\* the step is taken by executor e
StepBy(e) ==
    <<pc[e], idx[e], result[e], reco_calls[e], reco[e], ret[e], detail[e], task_detail[e],
      returned[e], events[e]>>'
        # <<pc[e], idx[e], result[e], reco_calls[e], reco[e], ret[e], detail[e],
            task_detail[e], returned[e], events[e]>>

\* the step belongs to a run_action call of executor e that passed the guards
InRunAction(e) ==
    \/ pc[e] \in {"actuate", "set_node_detail", "set_latest_node", "get_task_detail",
                  "set_task_detail", "action_done"}
    \/ pc[e] = "idle" /\ pc'[e] = "actuate"

\* C14: a step of run_recognition, screencap or override_pipeline (and of a run_action
\* that is turned away) leaves the node records, the latest-node entries, every task
\* record and the node-id counter as they were; these change only in steps of a
\* run_action, and a run_action step of executor e leaves the task record of every other
\* executor and every node record already written as they were.
C14_FrameEffects ==
    [][ /\ \A e \in Executors :
              (StepBy(e) /\ ~InRunAction(e)) =>
                  /\ node_details' = node_details
                  /\ latest_node' = latest_node
                  /\ task_details' = task_details
                  /\ s_global_node_id' = s_global_node_id
                  /\ allocated' = allocated
        /\ <<node_details, latest_node, task_details, s_global_node_id>>'
               # <<node_details, latest_node, task_details, s_global_node_id>>
             => \E e \in Executors : StepBy(e) /\ InRunAction(e)
        /\ \A e \in Executors :
              (StepBy(e) /\ InRunAction(e)) =>
                  /\ \A o \in Executors \ {e} :
                        /\ cache_has_task_detail(task_details', task_id_(o))
                        /\ task_details'[task_id_(o)] = task_details[task_id_(o)]
                  /\ \A n \in DOMAIN node_details :
                        /\ n \in DOMAIN node_details'
                        /\ node_details'[n] = node_details[n] ]_vars

\* a recognition of one executor has returned a match while the other executors' actions
\* have filled the cache; its own task record is still empty
C14_Witness ==
    LET e == RecoExecutor
    IN  /\ RecoReturned(e)
        /\ returned[e].value.box # NoBox
        /\ NodeIdsOf(e) = <<>>
        /\ DOMAIN node_details # {}
        /\ \E o \in Executors \ {e} : Len(NodeIdsOf(o)) = 2

\* ======================================================= the order of run_action
\* C15: a run_action call that has passed the guards and not yet invoked the Actuator has
\* drawn no node id and written nothing to its task's history; an Action.Starting it emits
\* carries node id 0 and is emitted before the Actuator is invoked; when it emits
\* Action.Succeeded or Action.Failed with node id n, the Actuator has been invoked once,
\* getNodeDetail(n) is already the record the call returns, n is already the last element
\* of the task's orderedNodeIds, and the kind is Succeeded exactly when that record has
\* completed = true.
C15_ActionOrder ==
    [][ \A e \in Executors :
          /\ pc'[e] = "actuate" =>
                /\ act_calls'[e] = 0
                /\ detail'[e] = EmptyNode
                /\ NodeIdsOf(e)' = pre_node_ids'[e]
          /\ \A i \in 1..Len(NewEvents(e)) :
                LET ev == NewEvents(e)[i]
                    d == returned'[e].value
                IN  /\ ev.kind = "Action.Starting" =>
                          /\ ev.id = 0
                          /\ ev.name = reco'[e].name
                          /\ pc'[e] = "actuate"
                    /\ ev.kind \in {"Action.Succeeded", "Action.Failed"} =>
                          /\ act_calls[e] = 1
                          /\ ev.id > 0
                          /\ ev.id \in DOMAIN node_details
                          /\ node_details[ev.id] = d
                          /\ Len(NodeIdsOf(e)) > 0
                          /\ NodeIdsOf(e)[Len(NodeIdsOf(e))] = ev.id
                          /\ returned'[e].op = "run_action"
                          /\ d.node_id = ev.id
                          /\ d.name = ev.name
                          /\ (ev.kind = "Action.Succeeded") <=> d.completed ]_vars

\* a call whose Actuator reported false has emitted Action.Starting with id 0 and then
\* Action.Failed with its node id, the second of its task
C15_Witness ==
    \E e \in Executors :
        /\ ActionReturnedRecord(e)
        /\ ~returned[e].value.completed
        /\ Len(events[e]) = 2
        /\ events[e][1].kind = "Action.Starting" /\ events[e][1].id = 0
        /\ events[e][2].kind = "Action.Failed"
        /\ events[e][2].id = returned[e].value.node_id
        /\ Len(NodeIdsOf(e)) = 2
        /\ NodeIdsOf(e)[2] = events[e][2].id

\* ================================================== the event state machine
\* C16: in the events of one call every Recognition.Succeeded or Recognition.Failed is
\* immediately preceded by the Recognition.Starting of the same candidate, every
\* Recognition.Starting is immediately followed by the Succeeded or Failed of that
\* candidate (or is the last event of a call that is at the Recognizer), every
\* NextList.Succeeded/Failed is preceded by a NextList.Starting and every
\* Action.Succeeded/Failed by an Action.Starting, whatever values the debug option takes
\* during the call.
C16_EventStateMachine ==
    LET e == RecoExecutor
        evs == events[e]
    IN  \A i \in 1..Len(evs) :
            /\ evs[i].kind \in {"Recognition.Succeeded", "Recognition.Failed"} =>
                  /\ i > 1
                  /\ evs[i - 1].kind = "Recognition.Starting"
                  /\ evs[i - 1].name = evs[i].name
            /\ evs[i].kind = "Recognition.Starting" =>
                  IF i < Len(evs)
                  THEN /\ evs[i + 1].kind \in {"Recognition.Succeeded", "Recognition.Failed"}
                       /\ evs[i + 1].name = evs[i].name
                  ELSE pc[e] = "recognize"
            /\ evs[i].kind \in {"NextList.Succeeded", "NextList.Failed"} =>
                  \E j \in 1..(i - 1) : evs[j].kind = "NextList.Starting"
            /\ evs[i].kind \in {"Action.Succeeded", "Action.Failed"} =>
                  \E j \in 1..(i - 1) : evs[j].kind = "Action.Starting"

\* ====================================================== the list-level events
ListKinds == {"NextList.Starting", "NextList.Succeeded", "NextList.Failed"}

\* executor e is inside the loop of run_recognition
InRecoLoop(e) == pc[e] \in {"loop", "recognize", "list_succeeded"}

\* C17: the NextList.* events of a run_recognition call carry the current node's name and
\* the whole candidate list, the same in the Starting and in the terminal event.  They are
\* gated by the focus flag of the current node, read at the start of the call: when it is
\* set, NextList.Starting is the first event of the call and a NextList terminal event the
\* last, whatever the candidates' flags; a decision taken with debug mode off emits a
\* NextList.* event only when it is set.
C17_ListEventGating ==
    [][ LET e == RecoExecutor
            evs == events'[e]
        IN  /\ \A i \in 1..Len(evs) :
                  evs[i].kind \in ListKinds =>
                      evs[i] = Event(evs[i].kind, entry_[e], 0, list[e])
            /\ (InRecoLoop(e)' \/ (RecoReturned(e)' /\ RecoEntered(e))) =>
                  /\ current_focus'[e] = get_pipeline_data(entry_[e]).focus
                  /\ current_focus'[e] =>
                        /\ Len(evs) > 0
                        /\ evs[1].kind = "NextList.Starting"
                        /\ RecoReturned(e)' =>
                              /\ Len(evs) > 1
                              /\ evs[Len(evs)].kind \in {"NextList.Succeeded", "NextList.Failed"}
            /\ ~debug =>
                  \A i \in 1..Len(NewEvents(e)) :
                      NewEvents(e)[i].kind \in ListKinds => current_focus'[e] ]_vars

\* the current node A is not focused, the candidate B is: the call returned B having
\* emitted B's Recognition.* events and no NextList.* event
C17_Witness ==
    LET e == RecoExecutor
    IN  /\ RecoReturned(e)
        /\ ~get_pipeline_data(entry_[e]).focus
        /\ get_pipeline_data("B").focus
        /\ returned[e].value.name = "B"
        /\ EventsOfKind(events[e], ListKinds) = {}
        /\ EventsOfKind(events[e], RecognitionKinds) # {}

\* ================================================= recency and the task history
\* no run_action call is in progress
Quiescent == \A e \in Executors : pc[e] = "idle"

\* the ids of the node records stored under the name
NodeIdsNamed(name) == {n \in DOMAIN node_details : node_details[n].name = name}

\* C18: in every state in which no run_action call is in progress, the latest-node entry
\* of a name X is the greatest node id among the node records named X.
C18_LatestIsGreatest ==
    Quiescent =>
        \A n \in DOMAIN node_details :
            LET name == node_details[n].name
            IN  /\ name \in DOMAIN latest_node
                /\ latest_node[name] \in NodeIdsNamed(name)
                /\ \A m \in NodeIdsNamed(name) : m <= latest_node[name]

\* the node ids drawn by executor e, in the order it drew them
RECURSIVE AllocatedTo(_, _)
AllocatedTo(e, allocs) ==
    IF allocs = <<>> THEN <<>>
    ELSE (IF Head(allocs).e = e THEN <<Head(allocs).node_id>> ELSE <<>>)
         \o AllocatedTo(e, Tail(allocs))

\* C19: in every state each task's orderedNodeIds is strictly increasing and is the
\* sequence of the ids its executor's run_action calls drew, in the order of the calls,
\* one per call that passed the guards (the id of a call that has not yet reached its
\* write of the task record still missing); no id is in the orderedNodeIds of two tasks.
C19_HistoryOrdered ==
    /\ \A e \in Executors :
          LET ids == NodeIdsOf(e)
              drawn == AllocatedTo(e, allocated)
          IN  /\ \A i, j \in 1..Len(ids) : i < j => ids[i] < ids[j]
              /\ IF pc[e] \in {"set_node_detail", "set_latest_node", "get_task_detail",
                               "set_task_detail"}
                 THEN drawn = Append(ids, detail[e].node_id)
                 ELSE drawn = ids
    /\ \A e1, e2 \in Executors :
          e1 # e2 =>
              \A i \in 1..Len(NodeIdsOf(e1)), j \in 1..Len(NodeIdsOf(e2)) :
                  NodeIdsOf(e1)[i] # NodeIdsOf(e2)[j]

\* two calls of one executor passed the guards, another call of it was turned away, and
\* its history holds the two ids in the order of the calls
C19_Witness ==
    \E e \in Executors :
        /\ Quiescent
        /\ ActionReturned(e)
        /\ returned[e].value = EmptyNode
        /\ NodeIdsOf(e) = <<1, 2>>
        /\ \A o \in Executors \ {e} : NodeIdsOf(o) = <<>>

====
